---- MODULE Spec2Model ----
(***************************************************************************)
(* Model of app.py, the donation-tracking Flask application: the donations *)
(* table, the session, the QR and upload folders, and one action per       *)
(* route handler.  A handler is an operator from the request's inputs and  *)
(* the current state to its outcome (the state it leaves and its response);*)
(* an action applies one outcome.  Spec runs each request to completion    *)
(* before the next; ConcSpec splits update_donation and delete_donation    *)
(* between their SELECT and their UPDATE/DELETE, where another request's   *)
(* commit can land.                                                        *)
(***************************************************************************)
EXTENDS Integers, Sequences, FiniteSets, TLC

VARIABLES
    db,         \* donations table: id -> row
    nextId,     \* sqlite_sequence of donations (AUTOINCREMENT): next id
    session,    \* the client's signed session cookie
    qrFiles,    \* names of the files in static/qr
    uploads,    \* names of the files in static/uploads
    resp,       \* response to the last request: status code and the row rendered
    inflight,   \* per request slot: the row a handler has read and not yet written
    everLeft    \* history: ids of rows whose stored status has been other than "Registrada"

vars == <<db, nextId, session, qrFiles, uploads, resp, inflight, everLeft>>

\* ------------------------------------------------------------------ bounds

\* Cap on the number of rows ever inserted (nextId is unbounded in SQLite).
MaxDonations == 2

\* ------------------------------------------------------------------ values

\* Python None / SQL NULL for text values.
NONE == "None"

INITIAL == "Registrada"

\* users table: the default admin of init_db, and a staff account of another
\* role, as a row added to donations.db outside the application (no route
\* creates users; role_required exists to tell such accounts from admin).
Users ==
    { [id |-> 1, username |-> "admin", password |-> "agape2025", role |-> "admin"],
      [id |-> 2, username |-> "colab", password |-> "colab2025", role |-> "staff"] }

\* Values generate_token() may return.
Tokens == {"tokA", "tokB"}

\* The value datetime.now().strftime("%Y-%m-%d %H:%M:%S") returns; no handler
\* reads created_at back, so one value stands for the clock.
Times == {"2025-06-01 09:00:00"}

\* Status values a form submits.
Statuses == {"Registrada", "Entregada"}

\* request.files.get("photo"): no file part, a part with an empty filename,
\* a named file.
PhotoNames == {NONE, "", "Foto.JPG"}

\* Descriptive fields of a form; NONE is a field the form does not carry.
FormAna ==
    [donor_name |-> "Ana", donor_phone |-> "555-0101", donor_email |-> "ana@example.org",
     donation_type |-> "Ropa", quantity |-> NONE, destination |-> "Comedor"]

FormAnaQ ==
    [FormAna EXCEPT !.quantity = ""]

FormBea ==
    [donor_name |-> "Bea", donor_phone |-> "", donor_email |-> NONE,
     donation_type |-> "Alimentos", quantity |-> "3", destination |-> "Hogar"]

FormEmpty ==
    [donor_name |-> NONE, donor_phone |-> NONE, donor_email |-> NONE,
     donation_type |-> NONE, quantity |-> NONE, destination |-> NONE]

NewForms == {FormAna, FormAnaQ, FormBea, FormEmpty}

UpdateForms ==
    { [donor_name |-> f.donor_name, donor_phone |-> f.donor_phone,
       donor_email |-> f.donor_email, donation_type |-> f.donation_type,
       quantity |-> f.quantity, destination |-> f.destination,
       status |-> s, photo |-> p] : f \in {FormAna, FormBea, FormEmpty}, s \in Statuses, p \in PhotoNames }

Credentials ==
    { [username |-> "admin", password |-> "agape2025"],
      [username |-> " admin ", password |-> "agape2025"],
      [username |-> "colab", password |-> "colab2025"],
      [username |-> "admin", password |-> "wrong"] }

NextArgs == {NONE, "/new"}

Ids == 1..MaxDonations

\* Two requests may be in progress at once.
Slots == {"r1", "r2"}

\* ------------------------------------------------------------------ helpers

\* str.strip() on the credentials the model submits.
Strip(s) ==
    IF s = " admin " THEN "admin" ELSE s

\* The INTEGER affinity of the quantity column stores a well-formed integer
\* literal as an integer (the literals the forms of the model carry);
\* QuantityOrZero is `request.form.get("quantity") or 0` as stored.
IntegerAffinity(s) ==
    CASE s = "0" -> 0
      [] s = "3" -> 3

QuantityOrZero(q) ==
    IF q = NONE \/ q = "" THEN 0 ELSE IntegerAffinity(q)

\* os.path.splitext(filename)[1].lower()
ExtLower(filename) ==
    IF filename = "Foto.JPG" THEN ".jpg" ELSE ""

\* f"donation_{donation_id}{ext}"
UploadName(donation_id, ext) ==
    "donation_" \o ToString(donation_id) \o ext

\* f"qr_{token}.png"
QrName(token) ==
    "qr_" \o token \o ".png"

EmptySession ==
    [logged_in |-> FALSE, user_id |-> 0, username |-> NONE, role |-> NONE]

Idle == [pc |-> "idle", id |-> 0, donation |-> {}]

\* The state a handler starts from, with the last response.
Cur ==
    [db |-> db, nextId |-> nextId, session |-> session,
     qrFiles |-> qrFiles, uploads |-> uploads, resp |-> resp]

\* A response that leaves the state as it is.
Respond(code, rows) ==
    [Cur EXCEPT !.resp = [code |-> code, body |-> rows]]

\* Mutant of SelectByToken: the WHERE clause is lost, fetchone returns the first row.
SelectByTokenFirst(token) ==
    { db[i] : i \in { j \in DOMAIN db : \A k \in DOMAIN db : j <= k } }

\* SELECT * FROM donations WHERE token = ?  (fetchone: a set of at most one row)
SelectByToken(token) ==
    { db[i] : i \in { j \in DOMAIN db : db[j].token = token } }

\* SELECT * FROM donations WHERE id = ?
SelectById(id) ==
    { db[i] : i \in DOMAIN db \cap {id} }

Row(r) == CHOOSE x \in r : TRUE

\* ------------------------------------------------------------------ decorators

\* Mutant of login_required: the session is not checked.
login_required_skipped(f) ==
    f

\* login_required: f runs only for a logged-in session.
login_required(f) ==
    IF ~session.logged_in THEN Respond("302:/login", {}) ELSE f

\* Mutant of role_required: the role is not checked.
role_required_skipped(role, f) ==
    f

\* role_required(role): f runs only for a session of that role.
role_required(role, f) ==
    IF session.role # role THEN Respond("403", {}) ELSE f

\* ------------------------------------------------------------------ login / logout

login(method, cred, next) ==
    IF method = "POST"
    THEN LET username == Strip(cred.username)
             password == Strip(cred.password)
             user == { u \in Users : u.username = username /\ u.password = password }
         IN  IF user # {}
             THEN [Cur EXCEPT
                     !.session = [logged_in |-> TRUE, user_id |-> Row(user).id,
                                  username |-> Row(user).username,
                                  role |-> Row(user).role],
                     !.resp = [code |-> IF next = NONE THEN "302:/" ELSE "302:" \o next,
                               body |-> {}]]
             ELSE Respond("200", {})
    ELSE Respond("200", {})

logout ==
    login_required(
        [Cur EXCEPT !.session = EmptySession,
                    !.resp = [code |-> "302:/login", body |-> {}]])

\* ------------------------------------------------------------------ panel

\* The listing is rendered from a SELECT; the rows listed are not part of resp.
admin_list ==
    login_required(Respond("200", {}))

\* Mutant of NewRow: the quantity defaults to 1.
NewRowDefaultOne(id, form, created_at, token) ==
    [id |-> id,
     donor_name |-> form.donor_name,
     donor_phone |-> form.donor_phone,
     donor_email |-> form.donor_email,
     donation_type |-> form.donation_type,
     quantity |-> IF form.quantity = NONE \/ form.quantity = "" THEN 1
                  ELSE IntegerAffinity(form.quantity),
     destination |-> form.destination,
     created_at |-> created_at,
     status |-> INITIAL,
     token |-> token,
     photo_path |-> NONE]

\* The row new_donation inserts.
NewRow(id, form, created_at, token) ==
    [id |-> id,
     donor_name |-> form.donor_name,
     donor_phone |-> form.donor_phone,
     donor_email |-> form.donor_email,
     donation_type |-> form.donation_type,
     quantity |-> QuantityOrZero(form.quantity),
     destination |-> form.destination,
     created_at |-> created_at,
     status |-> INITIAL,
     token |-> token,
     photo_path |-> NONE]

\* Mutant of InsertAccepted: the token column is not UNIQUE.
InsertAcceptedNoUnique(row) ==
    row.donor_name # NONE

\* The constraints of the donations table on an inserted row:
\* donor_name TEXT NOT NULL, token TEXT UNIQUE.
InsertAccepted(row) ==
    /\ row.donor_name # NONE
    /\ \A i \in DOMAIN db : db[i].token # row.token

\* A rejected INSERT raises sqlite3.IntegrityError: nothing is committed and
\* the request ends with 500.
new_donation(method, form, created_at, token) ==
    login_required(
        IF method = "POST"
        THEN LET row == NewRow(nextId, form, created_at, token)
             IN  IF InsertAccepted(row)
                 THEN [Cur EXCEPT
                         !.db = db @@ (nextId :> row),
                         !.nextId = nextId + 1,
                         !.qrFiles = qrFiles \cup {QrName(token)},
                         !.resp = [code |-> "302:/donation/qr", body |-> {}]]
                 ELSE Respond("500", {})
        ELSE Respond("200", {}))

\* donation_qr and donation_print: the same lookup and QR regeneration.
qr_page(token) ==
    LET donation == SelectByToken(token)
    IN  IF donation = {}
        THEN Respond("404", {})
        ELSE [Cur EXCEPT !.qrFiles = qrFiles \cup {QrName(token)},
                         !.resp = [code |-> "200", body |-> donation]]

donation_qr(token) ==
    login_required(qr_page(token))

donation_print(token) ==
    login_required(qr_page(token))

\* ------------------------------------------------------------------ public routes

track_donation(token) ==
    LET donation == SelectByToken(token)
    IN  IF donation = {} THEN Respond("404", {}) ELSE Respond("200", donation)

uploaded_file(filename) ==
    IF filename \in uploads THEN Respond("200", {}) ELSE Respond("404", {})

\* ------------------------------------------------------------------ update

\* Mutant of EditAllowed: the fields are editable in every status.
EditAllowedAlways(donation) ==
    TRUE

\* edit_allowed = donation["status"] == "Registrada"
EditAllowed(donation) ==
    donation.status = INITIAL

\* `photo and photo.filename`
HasPhoto(form) ==
    form.photo # NONE /\ form.photo # ""

\* The eight values the UPDATE statement binds, computed from the row the
\* handler read (donation) and the form.
UpdateValues(donation, donation_id, form) ==
    LET edit == EditAllowed(donation)
    IN  [donor_name |-> IF edit THEN form.donor_name ELSE donation.donor_name,
         donor_phone |-> IF edit THEN form.donor_phone ELSE donation.donor_phone,
         donor_email |-> IF edit THEN form.donor_email ELSE donation.donor_email,
         donation_type |-> IF edit THEN form.donation_type ELSE donation.donation_type,
         quantity |-> IF edit THEN QuantityOrZero(form.quantity) ELSE donation.quantity,
         destination |-> IF edit THEN form.destination ELSE donation.destination,
         status |-> form.status,
         photo_path |-> IF HasPhoto(form)
                        THEN "uploads/" \o UploadName(donation_id, ExtLower(form.photo))
                        ELSE donation.photo_path]

\* Mutant of ApplyUpdate: the UPDATE has no WHERE clause.
ApplyUpdateAllRows(table, donation_id, v) ==
    [i \in DOMAIN table |->
        [table[i] EXCEPT !.donor_name = v.donor_name,
                         !.donor_phone = v.donor_phone,
                         !.donor_email = v.donor_email,
                         !.donation_type = v.donation_type,
                         !.quantity = v.quantity,
                         !.destination = v.destination,
                         !.status = v.status,
                         !.photo_path = v.photo_path]]

\* UPDATE donations SET ... WHERE id = ?  on the table as it is now.
ApplyUpdate(table, donation_id, v) ==
    [i \in DOMAIN table |->
        IF i = donation_id
        THEN [table[i] EXCEPT !.donor_name = v.donor_name,
                              !.donor_phone = v.donor_phone,
                              !.donor_email = v.donor_email,
                              !.donation_type = v.donation_type,
                              !.quantity = v.quantity,
                              !.destination = v.destination,
                              !.status = v.status,
                              !.photo_path = v.photo_path]
        ELSE table[i]]

\* The POST branch of update_donation from the row it read: the photo is
\* saved, then the UPDATE runs and is committed, unless it sets donor_name
\* of a row to NULL (sqlite3.IntegrityError: nothing is committed, 500).
update_post(donation, donation_id, form) ==
    LET v == UpdateValues(donation, donation_id, form)
        saved == IF HasPhoto(form)
                 THEN uploads \cup {UploadName(donation_id, ExtLower(form.photo))}
                 ELSE uploads
    IN  IF donation_id \in DOMAIN db /\ v.donor_name = NONE
        THEN [Cur EXCEPT !.uploads = saved,
                         !.resp = [code |-> "500", body |-> {}]]
        ELSE [Cur EXCEPT !.uploads = saved,
                         !.db = ApplyUpdate(db, donation_id, v),
                         !.resp = [code |-> "302:/donation/qr", body |-> {}]]

update_donation(method, donation_id, form) ==
    login_required(
        LET donation == SelectById(donation_id)
        IN  IF donation = {}
            THEN Respond("404", {})
            ELSE IF method = "POST"
            THEN update_post(Row(donation), donation_id, form)
            ELSE Respond("200", donation))

\* ------------------------------------------------------------------ delete

\* Mutant of DeleteAllowed: a row is deletable in every status.
DeleteAllowedAlways(donation) ==
    TRUE

\* delete_donation refuses a row whose status is not "Registrada".
DeleteAllowed(donation) ==
    donation.status = INITIAL

\* DELETE FROM donations WHERE id = ?
ApplyDelete(table, donation_id) ==
    [i \in DOMAIN table \ {donation_id} |-> table[i]]

\* delete_donation from the row it read.
delete_post(donation, donation_id) ==
    IF ~DeleteAllowed(donation)
    THEN Respond("400", {})
    ELSE [Cur EXCEPT !.db = ApplyDelete(db, donation_id),
                     !.resp = [code |-> "302:/", body |-> {}]]

delete_donation(donation_id) ==
    login_required(role_required("admin",
        LET donation == SelectById(donation_id)
        IN  IF donation = {}
            THEN Respond("404", {})
            ELSE delete_post(Row(donation), donation_id)))

\* ------------------------------------------------------------------ specification

\* The state after init_db on a fresh donations.db, before any request.
Init ==
    /\ db = [i \in {} |-> {}]
    /\ nextId = 1
    /\ session = EmptySession
    /\ qrFiles = {}
    /\ uploads = {}
    /\ resp = [code |-> "none", body |-> {}]
    /\ inflight = [r \in Slots |-> Idle]
    /\ everLeft = {}

\* The state becomes a handler's outcome.  everLeft keeps each row whose
\* committed status is, or has been, other than "Registrada".
Apply(o) ==
    /\ o.nextId <= MaxDonations + 1
    /\ db' = o.db
    /\ nextId' = o.nextId
    /\ session' = o.session
    /\ qrFiles' = o.qrFiles
    /\ uploads' = o.uploads
    /\ resp' = o.resp
    /\ everLeft' = (everLeft \cap DOMAIN o.db)
                        \cup { i \in DOMAIN o.db : o.db[i].status # INITIAL }

UploadNames == { UploadName(i, e) : i \in Ids, e \in {"", ".jpg"} }

Methods == {"GET", "POST"}

\* The forms a request of method m carries: a GET carries none, and one
\* form stands for it.
FormsOf(m, forms) ==
    IF m = "POST" THEN forms ELSE {CHOOSE f \in forms : TRUE}

\* One action per route: the request is handled from start to end with no
\* other request in between.
Login ==
    \E m \in Methods :
      \E c \in FormsOf(m, Credentials), n \in NextArgs :
        /\ Apply(login(m, c, n))
        /\ UNCHANGED inflight

Logout ==
    /\ Apply(logout)
    /\ UNCHANGED inflight

AdminList ==
    /\ Apply(admin_list)
    /\ UNCHANGED inflight

NewDonation ==
    \E m \in Methods :
      \E f \in FormsOf(m, NewForms), t \in Times, k \in Tokens :
        /\ Apply(new_donation(m, f, t, k))
        /\ UNCHANGED inflight

DonationQr ==
    \E k \in Tokens :
        /\ Apply(donation_qr(k))
        /\ UNCHANGED inflight

DonationPrint ==
    \E k \in Tokens :
        /\ Apply(donation_print(k))
        /\ UNCHANGED inflight

TrackDonation ==
    \E k \in Tokens :
        /\ Apply(track_donation(k))
        /\ UNCHANGED inflight

UploadedFile ==
    \E n \in UploadNames :
        /\ Apply(uploaded_file(n))
        /\ UNCHANGED inflight

UpdateDonation ==
    \E m \in Methods :
      \E i \in Ids, f \in FormsOf(m, UpdateForms) :
        /\ Apply(update_donation(m, i, f))
        /\ UNCHANGED inflight

DeleteDonation ==
    \E i \in Ids :
        /\ Apply(delete_donation(i))
        /\ UNCHANGED inflight

Next ==
    \/ Login
    \/ Logout
    \/ AdminList
    \/ NewDonation
    \/ DonationQr
    \/ DonationPrint
    \/ TrackDonation
    \/ UploadedFile
    \/ UpdateDonation
    \/ DeleteDonation

Spec == Init /\ [][Next]_vars

\* ------------------------------------------------------------------ concurrent requests

\* A request in slot r ends with outcome o.
HandleIn(r, o) ==
    /\ Apply(o)
    /\ inflight' = [inflight EXCEPT ![r] = Idle]

\* The concurrent requests post forms without a photo part.
ConcForms == { f \in UpdateForms : f.photo = NONE }

\* update_donation (POST) up to its SELECT: the request ends there without a
\* session or without the row, and otherwise holds the row it read.
UpdateSelect ==
    \E r \in Slots, i \in Ids :
        /\ inflight[r] = Idle
        /\ IF ~session.logged_in \/ SelectById(i) = {}
           THEN \E f \in ConcForms : HandleIn(r, update_donation("POST", i, f))
           ELSE /\ inflight' = [inflight EXCEPT ![r] =
                       [pc |-> "update_donation", id |-> i, donation |-> SelectById(i)]]
                /\ UNCHANGED <<db, nextId, session, qrFiles, uploads, resp, everLeft>>

\* update_donation from its SELECT on: the photo, the UPDATE and the commit,
\* from the row the request read.
UpdateCommit ==
    \E r \in Slots, f \in ConcForms :
        /\ inflight[r].pc = "update_donation"
        /\ HandleIn(r, update_post(Row(inflight[r].donation), inflight[r].id, f))

\* delete_donation up to its SELECT.
DeleteSelect ==
    \E r \in Slots, i \in Ids :
        /\ inflight[r] = Idle
        /\ IF ~session.logged_in \/ session.role # "admin" \/ SelectById(i) = {}
           THEN HandleIn(r, delete_donation(i))
           ELSE /\ inflight' = [inflight EXCEPT ![r] =
                       [pc |-> "delete_donation", id |-> i, donation |-> SelectById(i)]]
                /\ UNCHANGED <<db, nextId, session, qrFiles, uploads, resp, everLeft>>

\* delete_donation from its SELECT on: the status check on the row read, the
\* DELETE and the commit.
DeleteCommit ==
    \E r \in Slots :
        /\ inflight[r].pc = "delete_donation"
        /\ HandleIn(r, delete_post(Row(inflight[r].donation), inflight[r].id))

ConcLogin ==
    \E c \in Credentials :
        /\ Apply(login("POST", c, NONE))
        /\ UNCHANGED inflight

ConcNewDonation ==
    \E f \in NewForms, t \in Times, k \in Tokens :
        /\ Apply(new_donation("POST", f, t, k))
        /\ UNCHANGED inflight

ConcNext ==
    \/ ConcLogin
    \/ ConcNewDonation
    \/ UpdateSelect
    \/ UpdateCommit
    \/ DeleteSelect
    \/ DeleteCommit

ConcSpec == Init /\ [][ConcNext]_vars

\* ------------------------------------------------------------------ claims

\* The forms an update request may post: those of UpdateForms, and the same
\* with no status field or with another status label.
AnyUpdateForms ==
    { [f EXCEPT !.status = st] : f \in UpdateForms, st \in Statuses \cup {NONE, "En camino"} }

\* The six descriptive columns of a row.
Descriptive(row) ==
    <<row.donor_name, row.donor_phone, row.donor_email,
      row.donation_type, row.quantity, row.destination>>

\* C1: an update request (POST) on a donation whose stored status is not
\* "Registrada" leaves its six descriptive fields as they were, whatever the
\* form submits, and, the handler having run (a logged-in session), the
\* submitted status is the one stored.
C1_UpdateKeepsFieldsOutsideInitial ==
    \A i \in DOMAIN db : \A f \in AnyUpdateForms :
        db[i].status # INITIAL
        => LET o == update_donation("POST", i, f)
           IN  /\ i \in DOMAIN o.db
               /\ o.db[i].donor_name = db[i].donor_name
               /\ o.db[i].donor_phone = db[i].donor_phone
               /\ o.db[i].donor_email = db[i].donor_email
               /\ o.db[i].donation_type = db[i].donation_type
               /\ o.db[i].quantity = db[i].quantity
               /\ o.db[i].destination = db[i].destination
               /\ (session.logged_in => o.db[i].status = f.status)

\* C1 witness: a row that left "Registrada" has had a submitted status stored
\* by a later update (it is "Registrada" again) and still carries Ana's fields.
C1_Witness ==
    \E i \in DOMAIN db :
        /\ i \in everLeft
        /\ db[i].status = INITIAL
        /\ db[i].donor_name = "Ana"
        /\ resp.code = "302:/donation/qr"

\* C2: a delete request for an existing donation removes the row iff its
\* status is "Registrada" and the session's role is admin; otherwise the
\* table is unchanged, the answer being the login redirect without a
\* session, 403 for another role and 400 for a status other than "Registrada".
C2_DeleteIffInitialAndAdmin ==
    \A i \in DOMAIN db :
        LET o == delete_donation(i)
        IN  IF session.logged_in /\ session.role = "admin" /\ db[i].status = INITIAL
            THEN /\ DOMAIN o.db = DOMAIN db \ {i}
                 /\ \A j \in DOMAIN o.db : o.db[j] = db[j]
            ELSE /\ o.db = db
                 /\ (~session.logged_in => o.resp.code = "302:/login")
                 /\ (session.logged_in /\ session.role # "admin" => o.resp.code = "403")
                 /\ (session.logged_in /\ session.role = "admin" => o.resp.code = "400")

\* C2 witness: one row has been deleted, and a delete of a row whose status
\* is not "Registrada" has been refused with 400.
C2_Witness ==
    /\ \E i \in 1..(nextId - 1) : i \notin DOMAIN db
    /\ \E j \in DOMAIN db : db[j].status # INITIAL
    /\ resp.code = "400"

\* C3: after any sequence of requests no two donations of the store have the
\* same token, and a donation's token is the same in every state from its
\* creation to its deletion (an id is never given twice, so a row is the same
\* donation for as long as it exists).
C3_TokenUniqueAndImmutable ==
    [][/\ \A i, j \in DOMAIN db' : i # j => db'[i].token # db'[j].token
       /\ \A i \in DOMAIN db \cap DOMAIN db' : db'[i].token = db[i].token
       /\ \A i \in DOMAIN db' \ DOMAIN db : i >= nextId]_vars

\* C3 witness: two donations exist, one of them updated, and a create that
\* drew a stored token (both tokens are taken) has been refused.
C3_Witness ==
    /\ Cardinality(DOMAIN db) = 2
    /\ \E i \in DOMAIN db : db[i].status # INITIAL
    /\ session.logged_in
    /\ resp.code = "500"

\* The outcomes of the admin routes, over every input the model submits.
AdminOutcomes ==
    {logout, admin_list}
        \cup { new_donation(m, f, t, k) :
                    m \in Methods, f \in NewForms, t \in Times, k \in Tokens }
        \cup { donation_qr(k) : k \in Tokens }
        \cup { donation_print(k) : k \in Tokens }
        \cup { update_donation(m, i, f) : m \in Methods, i \in Ids, f \in UpdateForms }
        \cup { delete_donation(i) : i \in Ids }

\* The outcomes of the routes without login_required.
PublicOutcomes ==
    { login(m, c, n) : m \in Methods, c \in Credentials, n \in NextArgs }
        \cup { track_donation(k) : k \in Tokens }
        \cup { uploaded_file(n) : n \in UploadNames }

\* C4: every admin operation requested without a logged-in session is
\* answered with the redirect to login and changes neither the donations nor
\* the files; login, tracking and upload serving are not redirected.
C4_AdminRequiresLogin ==
    ~session.logged_in
    => /\ \A o \in AdminOutcomes :
            /\ o.resp.code = "302:/login"
            /\ o.db = db
            /\ o.nextId = nextId
            /\ o.qrFiles = qrFiles
            /\ o.uploads = uploads
            /\ o.session = session
       /\ \A o \in PublicOutcomes : o.resp.code # "302:/login"

\* C4 witness: with donations in the store, a request without a session has
\* been redirected to login.
C4_Witness ==
    /\ ~session.logged_in
    /\ DOMAIN db # {}
    /\ resp.code = "302:/login"

\* C5: a create request (POST /new, with a donor name) by a logged-in session
\* always succeeds and adds exactly one donation, also when the generated
\* token is one already stored.
C5_CreateAlwaysSucceeds ==
    [][\A f \in NewForms \ {FormEmpty}, t \in Times, k \in Tokens :
          ( /\ session.logged_in
            /\ Apply(new_donation("POST", f, t, k)) )
          => /\ resp'.code = "302:/donation/qr"
             /\ Cardinality(DOMAIN db') = Cardinality(DOMAIN db) + 1]_vars

\* C6: after a successful create request the new donation is stored with
\* status "Registrada", no photo reference, quantity 0 when the quantity was
\* omitted or empty and the submitted quantity otherwise, and the QR file
\* named by its token exists.
C6_CreatedRowDefaults ==
    \A f \in NewForms, t \in Times, k \in Tokens :
        LET o == new_donation("POST", f, t, k)
        IN  o.resp.code = "302:/donation/qr"
            => /\ DOMAIN o.db = DOMAIN db \cup {nextId}
               /\ nextId \notin DOMAIN db
               /\ o.db[nextId].status = "Registrada"
               /\ o.db[nextId].photo_path = NONE
               /\ o.db[nextId].token = k
               /\ (f.quantity \in {NONE, ""} => o.db[nextId].quantity = 0)
               /\ (f.quantity = "3" => o.db[nextId].quantity = 3)
               /\ ("qr_" \o o.db[nextId].token \o ".png") \in o.qrFiles

\* C6 witness: Ana's donation, created without a quantity, is stored with
\* quantity 0, status "Registrada", no photo, and its QR file exists.
C6_Witness ==
    /\ resp.code = "302:/donation/qr"
    /\ \E i \in DOMAIN db :
        /\ i = nextId - 1
        /\ db[i].donor_name = "Ana"
        /\ db[i].quantity = 0
        /\ db[i].status = "Registrada"
        /\ db[i].photo_path = NONE
        /\ ("qr_" \o db[i].token \o ".png") \in qrFiles

\* C7: the tracking request, with or without a logged-in session, answers
\* not-found when no donation has the token, and otherwise answers with
\* exactly the status and photo reference stored for that donation; either
\* way it leaves the state unchanged.
C7_TrackReturnsStored ==
    \A k \in Tokens :
        LET o == track_donation(k)
            found == { i \in DOMAIN db : db[i].token = k }
        IN  /\ o.db = db
            /\ o.nextId = nextId
            /\ o.session = session
            /\ o.qrFiles = qrFiles
            /\ o.uploads = uploads
            /\ IF found = {}
               THEN o.resp.code = "404"
               ELSE /\ o.resp.code = "200"
                    /\ Cardinality(o.resp.body) = 1
                    /\ \A b \in o.resp.body : \A i \in found :
                            /\ b.status = db[i].status
                            /\ b.photo_path = db[i].photo_path

\* C7 witness: without a session, the tracking page of the second token has
\* been answered with a delivered donation and its photo, while the donation
\* with the first token is stored too.
C7_Witness ==
    /\ ~session.logged_in
    /\ resp.code = "200"
    /\ Cardinality(DOMAIN db) = 2
    /\ \E b \in resp.body :
        /\ b.status = "Entregada"
        /\ b.photo_path # NONE
        /\ b.id = 2
        /\ \E i \in DOMAIN db : db[i] = b

\* C8 as claimed: once the stored status of a donation has been other than
\* "Registrada", the row stays in the store in every later state, with its
\* descriptive fields unchanged.
C8_RetainedOnceLeft ==
    [][\A i \in everLeft :
          /\ i \in DOMAIN db'
          /\ Descriptive(db'[i]) = Descriptive(db[i])]_vars

\* C8 amended: while the stored status of a donation is other than
\* "Registrada", every request leaves the row in the store with its
\* descriptive fields, id, token and creation time unchanged; only its status
\* and photo reference may differ.
C8_RetainedWhileNotInitial ==
    [][\A i \in DOMAIN db :
          db[i].status # INITIAL
          => /\ i \in DOMAIN db'
             /\ Descriptive(db'[i]) = Descriptive(db[i])
             /\ db'[i].id = db[i].id
             /\ db'[i].token = db[i].token
             /\ db'[i].created_at = db[i].created_at]_vars

\* C8 witness: a delivered donation with a photo is in the store after an
\* admin's delete of it was refused.
C8_Witness ==
    /\ resp.code = "400"
    /\ session.role = "admin"
    /\ \E i \in DOMAIN db :
        /\ db[i].status = "Entregada"
        /\ db[i].photo_path # NONE
    /\ \A i \in DOMAIN db : db[i].status # INITIAL

\* C9: with two requests interleaved, a delete or a change of descriptive
\* fields is committed only when the status stored in the row at that moment
\* is "Registrada".
C9_GatedWriteSeesInitial ==
    [][\A i \in DOMAIN db :
          (i \notin DOMAIN db' \/ Descriptive(db'[i]) # Descriptive(db[i]))
          => db[i].status = INITIAL]_vars

====
